---- MODULE Spec2Model ----
(***************************************************************************)
(* Model of functions/src/index.ts: the callable operations lessonsList    *)
(* and generateScript, with the helpers they use (requireAuth,             *)
(* parseGenerateScriptPayload, expectString, ensurePersonalizationCoverage *)
(* and the body of buildScript).                                           *)
(*                                                                         *)
(* JavaScript values are tagged records.  Strings that the code trims or   *)
(* converts to numbers are sequences of one-character strings; strings the *)
(* code only copies or concatenates (identifiers, keys, titles, messages)  *)
(* are TLA+ strings.                                                       *)
(***************************************************************************)
EXTENDS Integers, Sequences, FiniteSets, TLC

(* ------------------------------------------------------------------ *)
(* Bounds of the model                                                 *)
(* ------------------------------------------------------------------ *)

\* Largest number of entries of the chunks array of an LLM payload.
MaxChunks == 3

\* Largest number of entries of a personalization object and of a lesson's
\* requiredPersonalizationFields.
MaxFields == 2

\* Number of invocations of a callable operation in one behaviour.
MaxRequests == 2

\* Largest number of pieces ("{{", "}}", "{", "}", a blank, "a", ".") of an
\* enumerated prompt template.
MaxTemplate == 4

(* ------------------------------------------------------------------ *)
(* JavaScript values                                                   *)
(* ------------------------------------------------------------------ *)

Undefined == [t |-> "undefined"]

Null == [t |-> "null"]

Str(s) == [t |-> "string", s |-> s]

\* A finite number.  Only the sign of a difference of two orders is ever
\* used, so integers stand for all finite numbers.
Num(n) == [t |-> "number", n |-> n]

NaN == [t |-> "number", nan |-> TRUE]

PosInfinity == [t |-> "number", inf |-> TRUE]

Bool(b) == [t |-> "boolean", b |-> b]

Arr(a) == [t |-> "array", a |-> a]

\* A plain object: its own enumerable properties, in insertion order, as a
\* sequence of [k, v] records with distinct keys.
Obj(e) == [t |-> "object", e |-> e]

\* A member inherited from Object.prototype (a function or an object).
InheritedMember == [t |-> "inherited"]

TypeOf(v) ==
  IF v.t \in {"null", "array", "object"} THEN "object"
  ELSE IF v.t = "inherited" THEN "function"
  ELSE v.t

IsArray(v) == v.t = "array"

IsFiniteNumber(v) == v.t = "number" /\ "n" \in DOMAIN v

\* Names every plain object inherits from Object.prototype.
ObjectPrototypeKeys ==
  {"__proto__", "constructor", "hasOwnProperty", "isPrototypeOf",
   "propertyIsEnumerable", "toLocaleString", "toString", "valueOf"}

OwnKeys(o) == {o.e[i].k : i \in 1..Len(o.e)}

\* o[key] for a plain object o.
Get(o, key) ==
  IF key \in OwnKeys(o)
    THEN (CHOOSE x \in {o.e[i] : i \in 1..Len(o.e)} : x.k = key).v
  ELSE IF key \in ObjectPrototypeKeys THEN InheritedMember
  ELSE Undefined

(* ------------------------------------------------------------------ *)
(* Strings                                                             *)
(* ------------------------------------------------------------------ *)

IsWhiteSpace(c) == c = " "

IsDigit(c) == c \in {"0", "1", "2"}

DigitValue(c) == IF c = "0" THEN 0 ELSE IF c = "1" THEN 1 ELSE 2

RECURSIVE trimStart(_)
trimStart(s) ==
  IF s = <<>> THEN s
  ELSE IF IsWhiteSpace(Head(s)) THEN trimStart(Tail(s))
  ELSE s

RECURSIVE trimEnd(_)
trimEnd(s) ==
  IF s = <<>> THEN s
  ELSE IF IsWhiteSpace(s[Len(s)]) THEN trimEnd(SubSeq(s, 1, Len(s) - 1))
  ELSE s

\* String.prototype.trim
trim(s) == trimEnd(trimStart(s))

\* The TLA+ string with the characters of s (for template literals).
RECURSIVE Text(_)
Text(s) == IF s = <<>> THEN "" ELSE Head(s) \o Text(Tail(s))

\* Array.prototype.join on an array of TLA+ strings.
RECURSIVE JoinNames(_, _)
JoinNames(names, sep) ==
  IF names = <<>> THEN ""
  ELSE IF Len(names) = 1 THEN names[1]
  ELSE names[1] \o sep \o JoinNames(Tail(names), sep)

\* Array.prototype.join on an array of character strings.
RECURSIVE JoinStrings(_, _)
JoinStrings(strs, sep) ==
  IF strs = <<>> THEN <<>>
  ELSE IF Len(strs) = 1 THEN strs[1]
  ELSE strs[1] \o sep \o JoinStrings(Tail(strs), sep)

RECURSIVE DecimalValue(_, _)
DecimalValue(s, acc) ==
  IF s = <<>> THEN acc
  ELSE DecimalValue(Tail(s), 10 * acc + DigitValue(Head(s)))

\* Number(s) for a string s: white space is stripped, the empty string is 0,
\* a run of decimal digits is its value, anything else over the model's
\* alphabet is NaN.
StringToNumber(s) ==
  LET body == trim(s) IN
  IF body = <<>> THEN Num(0)
  ELSE IF \A i \in 1..Len(body) : IsDigit(body[i]) THEN Num(DecimalValue(body, 0))
  ELSE NaN

\* Number(v), for the values the model gives a chunk's order (no arrays).
ToNumber(v) ==
  CASE v.t = "number" -> v
    [] v.t = "undefined" -> NaN
    [] v.t = "null" -> Num(0)
    [] v.t = "boolean" -> IF v.b THEN Num(1) ELSE Num(0)
    [] v.t = "string" -> StringToNumber(v.s)
    [] v.t = "object" -> NaN

(* ------------------------------------------------------------------ *)
(* Completions and errors                                              *)
(* ------------------------------------------------------------------ *)

Return(v) == [t |-> "return", value |-> v]

Throw(e) == [t |-> "throw", error |-> e]

HttpsError(code, message) == [t |-> "HttpsError", code |-> code, message |-> message]

\* An exception raised by the JavaScript runtime (not an HttpsError).
TypeError == [t |-> "TypeError"]

SyntaxError == [t |-> "SyntaxError"]

\* An exception raised by the OpenAI client (network, authentication, timeout).
ProviderErrors == {[t |-> "APIConnectionError"], [t |-> "AuthenticationError"]}

IsHttpsError(e) == e.t = "HttpsError"

(* ------------------------------------------------------------------ *)
(* requireAuth                                                         *)
(* ------------------------------------------------------------------ *)

\* request.auth of an authenticated call.
Auth(uid) == [t |-> "auth", uid |-> uid]

\* A variant that rejects only a missing auth object.
requireAuth_AcceptEmptyUid(request) ==
  IF request.auth = Undefined
    THEN Throw(HttpsError("unauthenticated", "Anonymous Firebase Authentication is required."))
  ELSE Return(request.auth.uid)

requireAuth(request) ==
  LET uid == IF request.auth = Undefined THEN Undefined ELSE Str(request.auth.uid) IN
  IF uid = Undefined \/ uid.s = ""
    THEN Throw(HttpsError("unauthenticated", "Anonymous Firebase Authentication is required."))
  ELSE Return(uid.s)

(* ------------------------------------------------------------------ *)
(* parseGenerateScriptPayload, expectString                            *)
(* ------------------------------------------------------------------ *)

\* A variant that forgets the white-space test.
expectString_NoBlankTest(value, field) ==
  IF TypeOf(value) # "string"
    THEN Throw(HttpsError("invalid-argument", field \o " must be a non-empty string."))
  ELSE Return(trim(value.s))

expectString(value, field) ==
  IF TypeOf(value) # "string" \/ Len(trim(value.s)) = 0
    THEN Throw(HttpsError("invalid-argument", field \o " must be a non-empty string."))
  ELSE Return(trim(value.s))

\* personalization[key] = value, on the PersonalizationMap being built.
SetKey(map, key, value) ==
  [k \in DOMAIN map \cup {key} |-> IF k = key THEN value ELSE map[k]]

EmptyMap == [k \in {} |-> <<>>]

\* The loop over Object.entries(personalizationValue): the first value that
\* is not a string throws, otherwise every value is stored trimmed.
RECURSIVE trimPersonalization(_, _)
trimPersonalization(entries, personalization) ==
  IF entries = <<>> THEN Return(personalization)
  ELSE IF TypeOf(Head(entries).v) # "string"
    THEN Throw(HttpsError("invalid-argument",
           "personalization value for " \o Head(entries).k \o " must be a string."))
  ELSE trimPersonalization(Tail(entries),
         SetKey(personalization, Head(entries).k, trim(Head(entries).v.s)))

parseGenerateScriptPayload(data) ==
  IF data = Null \/ TypeOf(data) # "object" \/ IsArray(data)
    THEN Throw(HttpsError("invalid-argument", "Request payload must be an object."))
  ELSE
    LET lessonId == expectString(Get(data, "lessonId"), "lessonId")
        languageCode == expectString(Get(data, "languageCode"), "languageCode")
        targetLevel == expectString(Get(data, "targetLevel"), "targetLevel")
        personalizationValue == Get(data, "personalization")
        personalization == trimPersonalization(personalizationValue.e, EmptyMap)
    IN
    IF lessonId.t = "throw" THEN lessonId
    ELSE IF languageCode.t = "throw" THEN languageCode
    ELSE IF targetLevel.t = "throw" THEN targetLevel
    ELSE IF personalizationValue = Null \/ TypeOf(personalizationValue) # "object"
            \/ IsArray(personalizationValue)
      THEN Throw(HttpsError("invalid-argument",
             "personalization must be an object of string values."))
    ELSE IF personalization.t = "throw" THEN personalization
    ELSE Return([lessonId |-> lessonId.value,
                 languageCode |-> trim(languageCode.value),
                 targetLevel |-> trim(targetLevel.value),
                 personalization |-> personalization.value])

(* ------------------------------------------------------------------ *)
(* renderTemplate and the replacements of buildScript                  *)
(* ------------------------------------------------------------------ *)

UpperCase ==
  << "A", "B", "C", "D", "E", "F", "G", "H", "I", "J", "K", "L", "M",
     "N", "O", "P", "Q", "R", "S", "T", "U", "V", "W", "X", "Y", "Z" >>

LowerCase ==
  << "a", "b", "c", "d", "e", "f", "g", "h", "i", "j", "k", "l", "m",
     "n", "o", "p", "q", "r", "s", "t", "u", "v", "w", "x", "y", "z" >>

\* The characters of the model in the order of their UTF-16 code units.
CodeUnitOrder ==
  <<" ", ",", ".", "0", "1", "2">> \o UpperCase \o <<"_">> \o LowerCase \o <<"{", "}">>

IndexIn(seq, c) == CHOOSE i \in 1..Len(seq) : seq[i] = c

CodeUnit(c) == IndexIn(CodeUnitOrder, c)

IsLowerCase(c) == \E i \in 1..Len(LowerCase) : LowerCase[i] = c

IsUpperCase(c) == \E i \in 1..Len(UpperCase) : UpperCase[i] = c

\* String.prototype.toUpperCase on one character.
toUpperCase(c) == IF IsLowerCase(c) THEN UpperCase[IndexIn(LowerCase, c)] ELSE c

\* \w
IsWordCharacter(c) == IsLowerCase(c) \/ IsUpperCase(c) \/ IsDigit(c) \/ c = "_"

\* [\w.]
IsKeyCharacter(c) == IsWordCharacter(c) \/ c = "."

\* The characters of the property names the model gives a personalization.
CodeUnits(name) ==
  CASE name = "user_name" -> <<"u", "s", "e", "r", "_", "n", "a", "m", "e">>
    [] name = "user_city" -> <<"u", "s", "e", "r", "_", "c", "i", "t", "y">>
    [] name = "toString" -> <<"t", "o", "S", "t", "r", "i", "n", "g">>
    [] name = "a" -> <<"a">>
    [] name = "." -> <<".">>

\* a < b for strings, as Array.prototype.sort() without a comparator orders
\* them: by code units, a proper prefix first.
RECURSIVE Precedes(_, _)
Precedes(a, b) ==
  IF b = <<>> THEN FALSE
  ELSE IF a = <<>> THEN TRUE
  ELSE IF Head(a) = Head(b) THEN Precedes(Tail(a), Tail(b))
  ELSE CodeUnit(Head(a)) < CodeUnit(Head(b))

\* Object.keys(personalization).sort()
RECURSIVE sortedKeys(_)
sortedKeys(keys) ==
  IF keys = {} THEN <<>>
  ELSE LET first == CHOOSE k \in keys :
                      \A other \in keys \ {k} : Precedes(CodeUnits(k), CodeUnits(other))
       IN <<first>> \o sortedKeys(keys \ {first})

\* key.replace(/_/g, " ")
RECURSIVE replaceUnderscores(_)
replaceUnderscores(s) ==
  IF s = <<>> THEN <<>>
  ELSE <<IF Head(s) = "_" THEN " " ELSE Head(s)>> \o replaceUnderscores(Tail(s))

\* .replace(/\b\w/g, (segment) => segment.toUpperCase()): a word character
\* that follows no word character is upper-cased.
capitalizeWords(s) ==
  [i \in 1..Len(s) |->
     IF IsWordCharacter(s[i]) /\ (i = 1 \/ ~IsWordCharacter(s[i - 1]))
       THEN toUpperCase(s[i])
     ELSE s[i]]

humanizeKey(key) == trim(capitalizeWords(replaceUnderscores(key)))

\* The personalization summary of buildScript (lines 115-118).
personalizationSummary(personalization) ==
  LET keys == sortedKeys(DOMAIN personalization)
      lines == [i \in 1..Len(keys) |->
                  humanizeKey(CodeUnits(keys[i])) \o <<":", " ">>
                    \o personalization[keys[i]]]
  IN JoinStrings(lines, <<";", " ">>)

\* A string the model only copies, as one element of a character sequence.
Whole(s) == IF s = "" THEN <<>> ELSE <<s>>

\* The replacements object of buildScript (lines 119-127): the six named
\* entries, then the spread personalization, which overrides them.  Every
\* lesson document of the model has a title and a subtitle.
buildReplacements(lessonData, languageCode, targetLevel, personalization, subject) ==
  LET named ==
        [k \in {"lesson_title", "lesson_subtitle", "language_code", "target_level",
                "learner_uid", "personalization_summary"} |->
           CASE k = "lesson_title" -> Str(Whole(lessonData.title))
             [] k = "lesson_subtitle" -> Str(Whole(lessonData.subtitle))
             [] k = "language_code" -> Str(languageCode)
             [] k = "target_level" -> Str(targetLevel)
             [] k = "learner_uid" -> Str(Whole(subject))
             [] k = "personalization_summary" ->
                  Str(personalizationSummary(personalization))]
  IN [k \in DOMAIN named \cup DOMAIN personalization |->
        IF k \in DOMAIN personalization THEN Str(personalization[k]) ELSE named[k]]

\* replacements[key]: replacements is a plain object, so a name it does not
\* own is looked up on Object.prototype.
replacementOf(replacements, key) ==
  IF key \in DOMAIN replacements THEN replacements[key]
  ELSE IF key \in ObjectPrototypeKeys THEN InheritedMember
  ELSE Undefined

\* String(value) of what the replace callback returns for the key: a string
\* is itself, a member of Object.prototype is its source text.
replacementText(value, key) ==
  IF value.t = "string" THEN value.s
  ELSE IF key = "__proto__" THEN <<"[object Object]">>
  ELSE IF key = "constructor" THEN <<"function Object() { [native code] }">>
  ELSE <<"function " \o key \o "() { [native code] }">>

\* \s* from position i: the position after the white space.
RECURSIVE skipWhiteSpace(_, _)
skipWhiteSpace(t, i) ==
  IF i <= Len(t) /\ IsWhiteSpace(t[i]) THEN skipWhiteSpace(t, i + 1) ELSE i

\* [\w.]* from position i: the position after the key characters.
RECURSIVE skipKeyCharacters(_, _)
skipKeyCharacters(t, i) ==
  IF i <= Len(t) /\ IsKeyCharacter(t[i]) THEN skipKeyCharacters(t, i + 1) ELSE i

\* The match of /{{\s*([\w.]+)\s*}}/ that starts at position i of t, if there
\* is one.  The three classes share no character, so the greedy match is the
\* only one.
matchAt(t, i) ==
  LET keyStart == skipWhiteSpace(t, i + 2)
      keyEnd == skipKeyCharacters(t, keyStart)
      close == skipWhiteSpace(t, keyEnd)
  IN
  IF /\ i + 1 <= Len(t) /\ t[i] = "{" /\ t[i + 1] = "{"
     /\ keyEnd > keyStart
     /\ close + 1 <= Len(t) /\ t[close] = "}" /\ t[close + 1] = "}"
    THEN [found |-> TRUE, last |-> close + 1,
          match |-> SubSeq(t, i, close + 1),
          key |-> Text(SubSeq(t, keyStart, keyEnd - 1))]
  ELSE [found |-> FALSE]

\* A variant that drops a placeholder whose key has no replacement.
replaceMatch_DropUnknown(replacements, match, key) ==
  LET replacement == replacementOf(replacements, key) IN
  IF replacement # Undefined THEN replacementText(replacement, key) ELSE <<>>

\* The callback of renderTemplate (lines 95-96).
replaceMatch(replacements, match, key) ==
  LET replacement == replacementOf(replacements, key) IN
  IF replacement # Undefined THEN replacementText(replacement, key) ELSE match

\* A variant that scans the inserted replacement again.
RECURSIVE replaceFrom_Rescan(_, _, _)
replaceFrom_Rescan(template, i, replacements) ==
  IF i > Len(template) THEN <<>>
  ELSE LET m == matchAt(template, i)
           inserted == replaceMatch(replacements, m.match, m.key)
       IN
       IF m.found /\ inserted # m.match
         THEN replaceFrom_Rescan(
                inserted \o SubSeq(template, m.last + 1, Len(template)), 1, replacements)
       ELSE <<template[i]>> \o replaceFrom_Rescan(template, i + 1, replacements)

\* template.replace(regex, callback) from position i on: the leftmost match
\* is replaced and the scan goes on after it, in the template.
RECURSIVE replaceFrom(_, _, _)
replaceFrom(template, i, replacements) ==
  IF i > Len(template) THEN <<>>
  ELSE LET m == matchAt(template, i) IN
       IF m.found
         THEN replaceMatch(replacements, m.match, m.key)
                \o replaceFrom(template, m.last + 1, replacements)
       ELSE <<template[i]>> \o replaceFrom(template, i + 1, replacements)

renderTemplate(template, replacements) == replaceFrom(template, 1, replacements)

(* ------------------------------------------------------------------ *)
(* ensurePersonalizationCoverage                                       *)
(* ------------------------------------------------------------------ *)

\* personalization[field]: the PersonalizationMap is a plain object ({}), so
\* a name it does not own is looked up on Object.prototype.
Lookup(personalization, field) ==
  IF field \in DOMAIN personalization THEN Str(personalization[field])
  ELSE IF field \in ObjectPrototypeKeys THEN InheritedMember
  ELSE Undefined

\* ToBoolean
Truthy(v) ==
  CASE v.t = "string" -> v.s # <<>>
    [] v.t = "boolean" -> v.b
    [] v.t = "number" -> "n" \in DOMAIN v /\ v.n # 0
    [] v.t \in {"undefined", "null"} -> FALSE
    [] OTHER -> TRUE

\* A variant that stops at the first missing field.
ensurePersonalizationCoverage_FirstOnly(requiredFields, personalization) ==
  LET Missing(field) == ~Truthy(Lookup(personalization, field))
      missing == SelectSeq(requiredFields, Missing)
  IN
  IF Len(missing) > 0
    THEN Throw(HttpsError("invalid-argument",
           "Missing personalization values for: " \o missing[1] \o "."))
  ELSE Return(Undefined)

ensurePersonalizationCoverage(requiredFields, personalization) ==
  LET Missing(field) == ~Truthy(Lookup(personalization, field))
      missing == SelectSeq(requiredFields, Missing)
  IN
  IF Len(missing) > 0
    THEN Throw(HttpsError("invalid-argument",
           "Missing personalization values for: " \o JoinNames(missing, ", ") \o "."))
  ELSE Return(Undefined)

(* ------------------------------------------------------------------ *)
(* buildScript: the response of the LLM provider                       *)
(* ------------------------------------------------------------------ *)

\* response.output_text is undefined or a text.  A text is white space
\* only, or not a JSON document, or the JSON text of a value.
BlankText == [t |-> "text", kind |-> "blank"]

MalformedText == [t |-> "text", kind |-> "malformed"]

JsonText(v) == [t |-> "text", kind |-> "json", value |-> v]

\* JSON.parse(payload), for a payload that is not blank.
JSONparse(payload) ==
  IF payload.kind = "json" THEN Return(payload.value) ELSE Throw(SyntaxError)

\* v[key] for a parsed JSON value: null has no properties (TypeError), a
\* primitive or an array has no property of the names read here.
Property(v, key) ==
  IF v.t \in {"null", "undefined"} THEN Throw(TypeError)
  ELSE IF v.t = "object" THEN Return(Get(v, key))
  ELSE Return(Undefined)

\* The first map over parsed.chunks (lines 207-210), one entry.
coerceChunk(chunk) ==
  LET order == Property(chunk, "order")
      text == Property(chunk, "text")
  IN
  IF order.t = "throw" THEN order
  ELSE Return([order |-> IF TypeOf(order.value) = "number" THEN order.value
                         ELSE ToNumber(order.value),
               text |-> IF TypeOf(text.value) = "string" THEN trim(text.value.s)
                        ELSE <<>>])

\* Array.prototype.map with coerceChunk: the first throwing entry aborts it.
RECURSIVE coerceChunks(_)
coerceChunks(chunks) ==
  IF chunks = <<>> THEN Return(<<>>)
  ELSE
    LET first == coerceChunk(Head(chunks)) IN
    IF first.t = "throw" THEN first
    ELSE
      LET rest == coerceChunks(Tail(chunks)) IN
      IF rest.t = "throw" THEN rest
      ELSE Return(<<first.value>> \o rest.value)

\* The filter of line 211.
Usable(chunk) == IsFiniteNumber(chunk.order) /\ Len(chunk.text) > 0

\* Array.prototype.sort with (a, b) => a.order - b.order on finite orders:
\* ascending, and stable (equal orders keep their relative sequence).
RECURSIVE insertByOrder(_, _)
insertByOrder(chunk, sorted) ==
  IF sorted = <<>> THEN <<chunk>>
  ELSE IF Head(sorted).order.n - chunk.order.n <= 0
    THEN <<Head(sorted)>> \o insertByOrder(chunk, Tail(sorted))
  ELSE <<chunk>> \o sorted

RECURSIVE sortInto(_, _)
sortInto(chunks, sorted) ==
  IF chunks = <<>> THEN sorted
  ELSE sortInto(Tail(chunks), insertByOrder(Head(chunks), sorted))

\* A variant whose sort puts equal orders in reverse.
RECURSIVE insertByOrder_Unstable(_, _)
insertByOrder_Unstable(chunk, sorted) ==
  IF sorted = <<>> THEN <<chunk>>
  ELSE IF Head(sorted).order.n - chunk.order.n < 0
    THEN <<Head(sorted)>> \o insertByOrder_Unstable(chunk, Tail(sorted))
  ELSE <<chunk>> \o sorted

RECURSIVE sortInto_Unstable(_, _)
sortInto_Unstable(chunks, sorted) ==
  IF chunks = <<>> THEN sorted
  ELSE sortInto_Unstable(Tail(chunks), insertByOrder_Unstable(Head(chunks), sorted))

sortByOrder_Unstable(chunks) == sortInto_Unstable(chunks, <<>>)

sortByOrder(chunks) == sortInto(chunks, <<>>)

\* A variant that keeps the order values of the LLM.
reindex_KeepOrder(chunks) ==
  [i \in 1..Len(chunks) |-> [order |-> chunks[i].order.n, text |-> chunks[i].text]]

\* The last map (line 213): the order of a chunk is its index.
reindex(chunks) ==
  [i \in 1..Len(chunks) |-> [order |-> i - 1, text |-> chunks[i].text]]

\* Lines 206-213, for chunk entries already coerced.
sanitizeChunks(coerced) == reindex(sortByOrder(SelectSeq(coerced, Usable)))

ChunkTexts(chunks) == [i \in 1..Len(chunks) |-> chunks[i].text]

\* A variant that returns the parsed fullText trimmed, even when empty.
chooseFullText_NoFallback(parsedFullText, sanitizedChunks) == trim(parsedFullText)

\* Line 217.
chooseFullText(parsedFullText, sanitizedChunks) ==
  IF Len(trim(parsedFullText)) > 0 THEN trim(parsedFullText)
  ELSE JoinStrings(ChunkTexts(sanitizedChunks), <<" ">>)

\* The body of the try block after the provider call returned `response`
\* (lines 193-223).
readResponse(lessonId, lesson, response) ==
  LET payload == response.output_text
      parsed == JSONparse(payload)
      fullText == Property(parsed.value, "fullText")
      chunks == Property(parsed.value, "chunks")
      coerced == coerceChunks(chunks.value.a)
      sanitizedChunks == sanitizeChunks(coerced.value)
  IN
  IF payload = Undefined \/ payload.kind = "blank"
    THEN Throw(HttpsError("internal", "OpenAI returned an empty response."))
  ELSE IF parsed.t = "throw"
    THEN Throw(HttpsError("internal", "OpenAI response could not be parsed as JSON."))
  ELSE IF fullText.t = "throw" THEN fullText
  ELSE IF TypeOf(fullText.value) # "string" \/ ~IsArray(chunks.value)
    THEN Throw(HttpsError("internal", "OpenAI response was missing required fields."))
  ELSE IF coerced.t = "throw" THEN coerced
  ELSE IF Len(sanitizedChunks) = 0
    THEN Throw(HttpsError("internal", "OpenAI response did not include any usable chunks."))
  ELSE Return([lessonId |-> lessonId,
               title |-> lesson.title,
               fullText |-> chooseFullText(fullText.value.s, sanitizedChunks),
               chunks |-> sanitizedChunks])

\* A variant of the catch clause that rethrows whatever it caught.
catchProviderError_Rethrow(error) == Throw(error)

\* The catch clause of buildScript (lines 224-229).
catchProviderError(error) ==
  IF IsHttpsError(error) THEN Throw(error)
  ELSE Throw(HttpsError("internal", "Failed to generate lesson script with OpenAI."))

\* buildScript from the settlement of openai.responses.create (`outcome`:
\* the response returned or the error thrown) to its own completion.
buildScriptAfterCall(lessonId, lesson, outcome) ==
  LET body == IF outcome.t = "throw" THEN outcome
              ELSE readResponse(lessonId, lesson, outcome.value)
  IN
  IF body.t = "throw" THEN catchProviderError(body.error) ELSE body

(* ------------------------------------------------------------------ *)
(* State                                                               *)
(* ------------------------------------------------------------------ *)

\* The handlers share nothing they write (the collections are only read), so
\* invocations are taken one after another: interleaving two of them reaches
\* no other result.

VARIABLES
  lessonTemplates,  \* the lessonTemplates collection: <<[id, data]>> in query order
  promptTemplates,  \* the promptTemplates collection: <<[id, data]>>
  pc,               \* where the running handler is suspended
  op,               \* the callable operation invoked last
  request,          \* its CallableRequest: [auth, data]
  uid,              \* generateScript: the subject identifier
  command,          \* generateScript: the validated payload
  lesson,           \* generateScript: lessonData
  llmInput,         \* generateScript: the rendered prompts given to the provider
  llmOutcome,       \* generateScript: how openai.responses.create settled
  trace,            \* the steps the running handler has taken
  result,           \* how the handler completed
  prev,             \* the invocation completed before this one
  invocations       \* the number of invocations started

vars == <<lessonTemplates, promptTemplates, pc, op, request, uid, command, lesson,
          llmInput, llmOutcome, trace, result, prev, invocations>>

None == [t |-> "none"]

\* db.collection(c).doc(id).get(): the snapshot of the document, if any.
Snapshot(collection, id) ==
  IF \E i \in 1..Len(collection) : collection[i].id = id
    THEN [exists |-> TRUE,
          data |-> (CHOOSE d \in {collection[i] : i \in 1..Len(collection)} : d.id = id).data]
  ELSE [exists |-> FALSE]

\* What the invocation that just completed leaves behind.
Completed ==
  IF pc = "done"
    THEN [op |-> op, request |-> request, ok |-> result.t = "return",
          llm |-> \E i \in 1..Len(trace) : trace[i] = "responses.create"]
  ELSE prev

(* ------------------------------------------------------------------ *)
(* lessonsList                                                         *)
(* ------------------------------------------------------------------ *)

\* lessonsList up to its query (lines 232-238).
lessonsListCall(auths) ==
  /\ pc \in {"idle", "done"}
  /\ invocations < MaxRequests
  /\ \E a \in auths :
       LET req == [auth |-> a, data |-> Null]
           authed == requireAuth(req)
       IN
       /\ request' = req
       /\ IF authed.t = "throw"
            THEN /\ result' = authed
                 /\ trace' = <<"requireAuth">>
                 /\ pc' = "done"
          ELSE /\ result' = None
               /\ trace' = <<"requireAuth", "lessonTemplates.query">>
               /\ pc' = "awaitList"
  /\ op' = "lessonsList"
  /\ prev' = Completed
  /\ invocations' = invocations + 1
  /\ uid' = None /\ command' = None /\ lesson' = None
  /\ llmInput' = None /\ llmOutcome' = None
  /\ UNCHANGED <<lessonTemplates, promptTemplates>>

\* lessonsList from the snapshot of the query to its return (lines 239-243).
lessonsListReply ==
  /\ pc = "awaitList"
  /\ result' = Return([lessons |->
       [i \in 1..Len(lessonTemplates) |->
          [id |-> lessonTemplates[i].id, data |-> lessonTemplates[i].data]]])
  /\ pc' = "done"
  /\ UNCHANGED <<lessonTemplates, promptTemplates, op, request, uid, command, lesson,
                 llmInput, llmOutcome, trace, prev, invocations>>

(* ------------------------------------------------------------------ *)
(* generateScript                                                      *)
(* ------------------------------------------------------------------ *)

\* generateScript up to the read of the lesson (lines 247-249).
generateScriptCall(auths, payloads) ==
  /\ pc \in {"idle", "done"}
  /\ invocations < MaxRequests
  /\ \E a \in auths, d \in payloads :
       LET req == [auth |-> a, data |-> d]
           authed == requireAuth(req)
           parsed == parseGenerateScriptPayload(d)
       IN
       /\ request' = req
       /\ IF authed.t = "throw"
            THEN /\ result' = authed
                 /\ trace' = <<"requireAuth">>
                 /\ pc' = "done"
                 /\ uid' = None /\ command' = None
          ELSE IF parsed.t = "throw"
            THEN /\ result' = parsed
                 /\ trace' = <<"requireAuth", "parseGenerateScriptPayload">>
                 /\ pc' = "done"
                 /\ uid' = authed.value /\ command' = None
          ELSE /\ result' = None
               /\ trace' = <<"requireAuth", "parseGenerateScriptPayload",
                             "lessonTemplates.get">>
               /\ pc' = "awaitLesson"
               /\ uid' = authed.value /\ command' = parsed.value
  /\ op' = "generateScript"
  /\ prev' = Completed
  /\ invocations' = invocations + 1
  /\ lesson' = None /\ llmInput' = None /\ llmOutcome' = None
  /\ UNCHANGED <<lessonTemplates, promptTemplates>>

\* generateScript from the lesson snapshot to the read of the prompt
\* template (lines 250-256).
generateScriptLesson ==
  /\ pc = "awaitLesson"
  /\ LET lessonSnapshot == Snapshot(lessonTemplates, command.lessonId)
         lessonData == lessonSnapshot.data
         requiredFields ==
           IF IsArray(lessonData.requiredPersonalizationFields)
             THEN lessonData.requiredPersonalizationFields.a
           ELSE <<>>
         coverage == ensurePersonalizationCoverage(requiredFields, command.personalization)
     IN
     IF ~lessonSnapshot.exists
       THEN /\ result' = Throw(HttpsError("not-found",
                           "Lesson " \o Text(command.lessonId) \o " does not exist."))
            /\ pc' = "done"
            /\ UNCHANGED <<lesson, trace>>
     ELSE IF coverage.t = "throw"
       THEN /\ result' = coverage
            /\ pc' = "done"
            /\ lesson' = lessonData
            /\ trace' = trace \o <<"ensurePersonalizationCoverage">>
     ELSE /\ pc' = "awaitPrompt"
          /\ lesson' = lessonData
          /\ trace' = trace \o <<"ensurePersonalizationCoverage", "promptTemplates.get">>
          /\ UNCHANGED result
  /\ UNCHANGED <<lessonTemplates, promptTemplates, op, request, uid, command,
                 llmInput, llmOutcome, prev, invocations>>

\* buildScript up to its try block (lines 114-176): the replacements, the
\* rendered system prompt if the document has one, the rendered user prompt.
\* Rendering calls template.replace, which a value that is no string does
\* not have, and the learner context calls join on the required fields
\* unless they are null or undefined.
buildScriptBeforeCall(lessonData, promptData, languageCode, targetLevel,
                      personalization, subject) ==
  LET replacements ==
        buildReplacements(lessonData, languageCode, targetLevel, personalization, subject)
      required == lessonData.requiredPersonalizationFields
  IN
  IF Truthy(promptData.systemPrompt) /\ TypeOf(promptData.systemPrompt) # "string"
    THEN Throw(TypeError)
  ELSE IF TypeOf(promptData.userPrompt) # "string" THEN Throw(TypeError)
  ELSE IF required # Undefined /\ required # Null /\ ~IsArray(required)
    THEN Throw(TypeError)
  ELSE Return([renderedSystemPrompt |->
                 IF Truthy(promptData.systemPrompt)
                   THEN renderTemplate(promptData.systemPrompt.s, replacements)
                 ELSE <<>>,
               renderedUserPrompt |->
                 renderTemplate(promptData.userPrompt.s, replacements)])

\* generateScript from the prompt snapshot to the provider call (lines
\* 257-270 and 114-178).  secretAvailable: whether new OpenAI({apiKey})
\* returns; it throws when the secret gives no key.
generateScriptPrompt ==
  /\ pc = "awaitPrompt"
  /\ \E secretAvailable \in BOOLEAN :
       LET promptSnapshot == Snapshot(promptTemplates, lesson.promptTemplateId)
           built == buildScriptBeforeCall(lesson, promptSnapshot.data,
                      command.languageCode, command.targetLevel,
                      command.personalization, uid)
       IN
       IF ~promptSnapshot.exists
         THEN /\ result' = Throw(HttpsError("failed-precondition",
                             "Prompt template " \o lesson.promptTemplateId
                               \o " referenced by lesson " \o Text(command.lessonId)
                               \o " is missing."))
              /\ pc' = "done"
              /\ UNCHANGED <<llmInput, trace>>
       ELSE IF ~secretAvailable
         THEN /\ result' = Throw(HttpsError("failed-precondition",
                             "OpenAI API key is not configured."))
              /\ pc' = "done"
              /\ trace' = trace \o <<"new OpenAI">>
              /\ UNCHANGED llmInput
       ELSE IF built.t = "throw"
         THEN /\ result' = built
              /\ pc' = "done"
              /\ trace' = trace \o <<"new OpenAI", "buildScript">>
              /\ UNCHANGED llmInput
       ELSE /\ pc' = "awaitLLM"
            /\ trace' = trace \o <<"new OpenAI", "buildScript", "responses.create">>
            /\ llmInput' = built.value
            /\ UNCHANGED result
  /\ UNCHANGED <<lessonTemplates, promptTemplates, op, request, uid, command, lesson,
                 llmOutcome, prev, invocations>>

\* generateScript from the settlement of the provider call to its completion
\* (lines 193-229 and 280).
generateScriptLLM(outcomes) ==
  /\ pc = "awaitLLM"
  /\ \E outcome \in outcomes :
       /\ llmOutcome' = outcome
       /\ result' = buildScriptAfterCall(command.lessonId, lesson, outcome)
  /\ pc' = "done"
  /\ UNCHANGED <<lessonTemplates, promptTemplates, op, request, uid, command, lesson,
                 llmInput, trace, prev, invocations>>

(* ------------------------------------------------------------------ *)
(* The collections and the inputs of the model                         *)
(* ------------------------------------------------------------------ *)

LessonTemplate(title, category, requiredPersonalizationFields, promptTemplateId) ==
  [title |-> title, subtitle |-> "", category |-> category,
   estimatedDurationSeconds |-> 60, isLocked |-> FALSE,
   requiredPersonalizationFields |-> requiredPersonalizationFields,
   promptTemplateId |-> promptTemplateId]

\* Four lessons, by category and title: one complete, one whose prompt
\* template has no userPrompt, one without an array of required fields whose
\* prompt template does not exist, one requiring the field "toString".
Catalog ==
  << [id |-> <<"a">>,
      data |-> LessonTemplate("Introduce Yourself", "basics",
                Arr(<<"user_name", "user_city">>), "self-intro-v1")],
     [id |-> <<"a", "b">>,
      data |-> LessonTemplate("Small Talk", "basics", Arr(<<>>), "small-talk-v1")],
     [id |-> <<"b">>,
      data |-> LessonTemplate("Order Coffee", "travel", Undefined, "coffee-v1")],
     [id |-> <<"b", "a">>,
      data |-> LessonTemplate("Say Goodbye", "travel", Arr(<<"toString">>), "self-intro-v1")] >>

Prompts ==
  << [id |-> "self-intro-v1",
      data |-> [userPrompt |-> Str(<<"a">>), systemPrompt |-> Undefined]],
     [id |-> "small-talk-v1",
      data |-> [userPrompt |-> Undefined, systemPrompt |-> Undefined]] >>

Auths == {Undefined, Auth(""), Auth("u1")}

\* An object with the properties whose value is not undefined.
Present(entries) ==
  LET Has(entry) == entry.v # Undefined IN Obj(SelectSeq(entries, Has))

Payload(lessonId, languageCode, targetLevel, personalization) ==
  Present(<< [k |-> "lessonId", v |-> lessonId],
             [k |-> "languageCode", v |-> languageCode],
             [k |-> "targetLevel", v |-> targetLevel],
             [k |-> "personalization", v |-> personalization] >>)

AlexInBerlin ==
  Obj(<< [k |-> "user_name", v |-> Str(<<"a">>)],
         [k |-> "user_city", v |-> Str(<<" ", "b">>)] >>)

\* The request payloads of Spec: malformed ones, and one for every way a
\* lesson can go.
Payloads ==
  { Null,
    Payload(Undefined, Str(<<"a">>), Str(<<"b">>), AlexInBerlin),
    Payload(Str(<<"a", " ">>), Str(<<"a">>), Str(<<"b">>), AlexInBerlin),
    Payload(Str(<<"a">>), Str(<<"a">>), Str(<<"b">>),
            Obj(<< [k |-> "user_name", v |-> Str(<<"a">>)] >>)),
    Payload(Str(<<"a", "b">>), Str(<<"a">>), Str(<<"b">>), Obj(<<>>)),
    Payload(Str(<<"b">>), Str(<<"a">>), Str(<<"b">>), Obj(<<>>)),
    Payload(Str(<<"b", "a">>), Str(<<"a">>), Str(<<"b">>), Obj(<<>>)),
    Payload(Str(<<"1">>), Str(<<"a">>), Str(<<"b">>), Obj(<<>>)) }

Chunk(order, text) ==
  Present(<< [k |-> "order", v |-> order], [k |-> "text", v |-> text] >>)

Script(fullText, chunks) ==
  Present(<< [k |-> "fullText", v |-> fullText], [k |-> "chunks", v |-> chunks] >>)

Response(text) == Return([output_text |-> text])

\* The settlements of the provider call in Spec.
Outcomes ==
  { Throw(e) : e \in ProviderErrors } \cup
  { Response(Undefined), Response(BlankText), Response(MalformedText),
    Response(JsonText(Null)),
    Response(JsonText(Script(Str(<<"a">>), Undefined))),
    Response(JsonText(Script(Str(<<"a">>), Arr(<<Chunk(Num(0), Str(<<" ">>))>>)))),
    Response(JsonText(Script(Str(<<"a">>), Arr(<<Null, Chunk(Num(0), Str(<<"a">>))>>)))),
    Response(JsonText(Script(Str(<<"a">>),
      Arr(<<Chunk(PosInfinity, Str(<<"a">>)), Num(0), Chunk(Str(<<"a">>), Str(<<"b">>)),
            Chunk(Num(2), Num(0)), Chunk(Bool(TRUE), Str(<<"b", " ">>))>>)))),
    Response(JsonText(Script(Str(<<" ">>),
      Arr(<<Chunk(Num(1), Str(<<"b">>)), Chunk(Num(0), Str(<<"a">>))>>)))),
    Response(JsonText(Script(Str(<<"a", " ", "b">>),
      Arr(<<Chunk(Num(1), Str(<<"b">>)), Chunk(Num(0), Str(<<"a">>))>>)))) }

(* ------------------------------------------------------------------ *)
(* Spec: the two callable operations, one invocation after another     *)
(* ------------------------------------------------------------------ *)

Init ==
  /\ lessonTemplates = Catalog
  /\ promptTemplates = Prompts
  /\ pc = "idle"
  /\ op = "none"
  /\ request = None
  /\ uid = None
  /\ command = None
  /\ lesson = None
  /\ llmInput = None
  /\ llmOutcome = None
  /\ trace = <<>>
  /\ result = None
  /\ prev = None
  /\ invocations = 0

LessonsListCall == lessonsListCall(Auths)

GenerateScriptCall == generateScriptCall(Auths, Payloads)

GenerateScriptLLM == generateScriptLLM(Outcomes)

Next ==
  \/ LessonsListCall
  \/ lessonsListReply
  \/ GenerateScriptCall
  \/ generateScriptLesson
  \/ generateScriptPrompt
  \/ GenerateScriptLLM

Spec == Init /\ [][Next]_vars

(* ------------------------------------------------------------------ *)
(* SpecSanitize: one provider call settling, over all small payloads   *)
(* ------------------------------------------------------------------ *)

\* The values of a chunk entry's order and text, and of fullText.
OrderValues == {Undefined, Null, Num(-1), Num(1), Str(<<"1">>)}

TextValues == {Str(<<" ">>), Str(<<"a">>), Str(<<" ", "b">>)}

FullTextValues == {Str(<<" ">>), Str(<<" ", "a">>)}

ChunkEntries == {Chunk(o, t) : o \in OrderValues, t \in TextValues} \cup {Null}

ChunkLists == UNION {[1..n -> ChunkEntries] : n \in 0..MaxChunks}

AllOutcomes ==
  Outcomes \cup
  {Response(JsonText(Script(f, Arr(c)))) : f \in FullTextValues, c \in ChunkLists}

\* generateScript suspended on the provider call, for the request of u1 for
\* lesson "a".
InitSanitize ==
  LET data == Payload(Str(<<"a", " ">>), Str(<<"a">>), Str(<<"b">>), AlexInBerlin) IN
  /\ lessonTemplates = Catalog
  /\ promptTemplates = Prompts
  /\ pc = "awaitLLM"
  /\ op = "generateScript"
  /\ request = [auth |-> Auth("u1"), data |-> data]
  /\ uid = "u1"
  /\ command = parseGenerateScriptPayload(data).value
  /\ lesson = Snapshot(Catalog, <<"a">>).data
  /\ llmInput = buildScriptBeforeCall(lesson, Snapshot(Prompts, "self-intro-v1").data,
                   command.languageCode, command.targetLevel,
                   command.personalization, uid).value
  /\ llmOutcome = None
  /\ trace = <<"requireAuth", "parseGenerateScriptPayload", "lessonTemplates.get",
               "ensurePersonalizationCoverage", "promptTemplates.get", "new OpenAI",
               "buildScript", "responses.create">>
  /\ result = None
  /\ prev = None
  /\ invocations = 1

SanitizeLLM == generateScriptLLM(AllOutcomes)

NextSanitize == SanitizeLLM

SpecSanitize == InitSanitize /\ [][NextSanitize]_vars

(* ------------------------------------------------------------------ *)
(* SpecValidate: one call of generateScript, over all small payloads   *)
(* ------------------------------------------------------------------ *)

FieldValues == {Undefined, Num(1), Str(<<" ">>), Str(<<" ", "a", " ">>), Str(<<"b">>)}

PersonalizationKeys == {"user_name", "user_city", "toString"}

PersonalizationValues == {Null, Num(1), Str(<<>>), Str(<<" ">>), Str(<<" ", "b">>)}

DistinctKeys(entries) ==
  \A i, j \in 1..Len(entries) : entries[i].k = entries[j].k => i = j

PersonalizationObjects ==
  {Obj(e) : e \in
    {x \in UNION {[1..n -> [k : PersonalizationKeys, v : PersonalizationValues]] :
                    n \in 0..MaxFields} : DistinctKeys(x)}}

AllPayloads ==
  {Undefined, Null, Num(1), Str(<<"a">>), Arr(<<>>)} \cup
  {Payload(l, c, t, p) :
     l \in FieldValues, c \in FieldValues, t \in FieldValues,
     p \in PersonalizationObjects \cup {Undefined, Null, Str(<<"a">>), Arr(<<>>)}}

ValidateCall ==
  /\ pc = "idle"
  /\ generateScriptCall({Auth("u1")}, AllPayloads)

NextValidate == ValidateCall

SpecValidate == Init /\ [][NextValidate]_vars

(* ------------------------------------------------------------------ *)
(* SpecCoverage: one lesson snapshot arriving, over all small lessons  *)
(* and personalization maps                                            *)
(* ------------------------------------------------------------------ *)

RequiredFieldValues ==
  {Undefined} \cup
  {Arr(f) : f \in UNION {[1..n -> PersonalizationKeys] : n \in 0..MaxFields}}

CoverageValues == {Undefined, Str(<<" ">>), Str(<<"b">>)}

CoveragePayloads ==
  {Payload(Str(<<"a">>), Str(<<"a">>), Str(<<"b">>),
           Present(<< [k |-> "user_name", v |-> n], [k |-> "user_city", v |-> c],
                      [k |-> "toString", v |-> s] >>)) :
     n \in CoverageValues, c \in CoverageValues, s \in CoverageValues}

\* generateScript suspended on the read of lesson "a", for every payload of
\* CoveragePayloads and every value of the lesson's required fields.
InitCoverage ==
  /\ \E required \in RequiredFieldValues :
       lessonTemplates =
         << [id |-> <<"a">>,
             data |-> LessonTemplate("Introduce Yourself", "basics", required,
                                     "self-intro-v1")] >>
  /\ promptTemplates = Prompts
  /\ pc = "awaitLesson"
  /\ op = "generateScript"
  /\ \E data \in CoveragePayloads :
       /\ request = [auth |-> Auth("u1"), data |-> data]
       /\ command = parseGenerateScriptPayload(data).value
  /\ uid = "u1"
  /\ lesson = None
  /\ llmInput = None
  /\ llmOutcome = None
  /\ trace = <<"requireAuth", "parseGenerateScriptPayload", "lessonTemplates.get">>
  /\ result = None
  /\ prev = None
  /\ invocations = 1

NextCoverage == generateScriptLesson

SpecCoverage == InitCoverage /\ [][NextCoverage]_vars

(* ------------------------------------------------------------------ *)
(* SpecRender: buildScript renders every prompt template               *)
(* ------------------------------------------------------------------ *)

TemplatePieces == {<<"{", "{">>, <<"}", "}">>, <<"{">>, <<"}">>, <<" ">>, <<"a">>, <<".">>}

RECURSIVE Concat(_)
Concat(pieces) ==
  IF pieces = <<>> THEN <<>> ELSE Head(pieces) \o Concat(Tail(pieces))

\* Every template of at most MaxTemplate pieces.
SmallTemplates ==
  {Concat(pieces) :
     pieces \in UNION {[1..n -> TemplatePieces] : n \in 0..MaxTemplate}}

Placeholder(key) == <<"{", "{">> \o key \o <<"}", "}">>

\* Longer templates: two placeholders with and without white space, the
\* entries buildScript names, a personalization key of several characters
\* beside a key nothing defines, and names of Object.prototype.
LongTemplates ==
  { <<"{", "{", " ", "a", " ", "}", "}", " ">> \o Placeholder(<<".">>),
    Placeholder(<<"a">>) \o Placeholder(<<"a", ".", "a">>) \o Placeholder(<<"a">>),
    Placeholder(<<"a">>) \o <<".", "}", "}">>,
    <<"{", "{", "a", " ", "a", "}", "}">>,
    Placeholder(<<"l", "e", "s", "s", "o", "n", "_", "t", "i", "t", "l", "e">>)
      \o <<" ">> \o
      Placeholder(<<"l", "e", "s", "s", "o", "n", "_", "s", "u", "b", "t", "i", "t", "l", "e">>),
    Placeholder(<<"l", "e", "a", "r", "n", "e", "r", "_", "u", "i", "d">>)
      \o Placeholder(<<"t", "a", "r", "g", "e", "t", "_", "l", "e", "v", "e", "l">>),
    Placeholder(<<"p", "e", "r", "s", "o", "n", "a", "l", "i", "z", "a", "t", "i", "o", "n",
                  "_", "s", "u", "m", "m", "a", "r", "y">>),
    <<"H", "i", " ">> \o Placeholder(CodeUnits("user_name")) \o <<",", " ", "f", "r", "o", "m", " ">>
      \o Placeholder(<<"m", "i", "s", "s", "i", "n", "g", "_", "k", "e", "y">>),
    <<"a", " ">> \o Placeholder(CodeUnits("toString")),
    Placeholder(<<"_", "_", "p", "r", "o", "t", "o", "_", "_">>) }

\* The prompt documents: every template as the user prompt of a document
\* without a system prompt, and documents with a system prompt, with an
\* empty one, with one that is no string and without a string user prompt.
PromptDocuments ==
  {[userPrompt |-> Str(t), systemPrompt |-> Undefined] :
     t \in SmallTemplates \cup LongTemplates} \cup
  { [userPrompt |-> Str(Placeholder(<<"a">>)),
     systemPrompt |-> Str(<<"a", " ">> \o Placeholder(<<".">>))],
    [userPrompt |-> Str(Placeholder(<<".">>)), systemPrompt |-> Str(<<>>)],
    [userPrompt |-> Str(<<"a">>), systemPrompt |-> Num(1)],
    [userPrompt |-> Undefined, systemPrompt |-> Str(<<"a">>)] }

\* The personalizations: none, a plain value, a value that is a placeholder
\* beside an empty value, a value that opens a placeholder, and two fields
\* with names of several characters.
RenderPayloads ==
  {Payload(Str(<<"a">>), Str(<<"a">>), Str(<<"b">>), personalization) :
     personalization \in
       { Obj(<<>>),
         Obj(<< [k |-> "a", v |-> Str(<<"b">>)] >>),
         Obj(<< [k |-> "a", v |-> Str(Placeholder(<<".">>))],
                [k |-> ".", v |-> Str(<<" ">>)] >>),
         Obj(<< [k |-> "a", v |-> Str(<<"{", "{">>)],
                [k |-> ".", v |-> Str(<<"b">>)] >>),
         AlexInBerlin }}

\* generateScript suspended on the read of the prompt template of a lesson
\* that requires no personalization field, for every prompt document and
\* every payload of RenderPayloads.
InitRender ==
  LET lessonData == LessonTemplate("Introduce Yourself", "basics", Arr(<<>>),
                                   "self-intro-v1")
  IN
  /\ lessonTemplates = << [id |-> <<"a">>, data |-> lessonData] >>
  /\ \E document \in PromptDocuments :
       promptTemplates = << [id |-> "self-intro-v1", data |-> document] >>
  /\ pc = "awaitPrompt"
  /\ op = "generateScript"
  /\ \E data \in RenderPayloads :
       /\ request = [auth |-> Auth("u1"), data |-> data]
       /\ command = parseGenerateScriptPayload(data).value
  /\ uid = "u1"
  /\ lesson = lessonData
  /\ llmInput = None
  /\ llmOutcome = None
  /\ trace = <<"requireAuth", "parseGenerateScriptPayload", "lessonTemplates.get",
               "ensurePersonalizationCoverage", "promptTemplates.get">>
  /\ result = None
  /\ prev = None
  /\ invocations = 1

NextRender == generateScriptPrompt

SpecRender == InitRender /\ [][NextRender]_vars

(* ------------------------------------------------------------------ *)
(* Properties                                                          *)
(* ------------------------------------------------------------------ *)

Succeeded == op = "generateScript" /\ pc = "done" /\ result.t = "return"

Failed == pc = "done" /\ result.t = "throw"

FailedWith(code) ==
  Failed /\ IsHttpsError(result.error) /\ result.error.code = code

\* The provider returned the JSON text of an object with a string fullText
\* and an array chunks.
GotScript ==
  /\ llmOutcome.t = "return"
  /\ llmOutcome.value.output_text # Undefined
  /\ llmOutcome.value.output_text.kind = "json"
  /\ llmOutcome.value.output_text.value.t = "object"
  /\ Get(llmOutcome.value.output_text.value, "fullText").t = "string"
  /\ Get(llmOutcome.value.output_text.value, "chunks").t = "array"

RawFullText == Get(llmOutcome.value.output_text.value, "fullText").s

RawChunks == Get(llmOutcome.value.output_text.value, "chunks").a

\* C1: in every successful result of generateScript the chunks list is not
\* empty and the chunk at position i (from 0) has order i, whatever order
\* values the LLM payload carried.
C1_ChunkOrdersAreIndexes ==
  Succeeded =>
    /\ Len(result.value.chunks) > 0
    /\ \A i \in 1..Len(result.value.chunks) : result.value.chunks[i].order = i - 1

\* A success on a payload whose usable orders are 1, null and -1.
C1_Witness ==
  /\ Succeeded
  /\ GotScript
  /\ Len(RawChunks) = 3
  /\ Len(result.value.chunks) = 3
  /\ RawChunks[1] = Chunk(Num(1), Str(<<"a">>))
  /\ RawChunks[2] = Chunk(Null, Str(<<" ", "b">>))
  /\ RawChunks[3] = Chunk(Num(-1), Str(<<"a">>))

\* The request of the running (or last) invocation carries no subject
\* identifier: auth is absent or its uid is empty.
NoSubject ==
  /\ request # None
  /\ (request.auth = Undefined \/ request.auth.uid = "")

\* C2: a call of lessonsList or generateScript without a subject identifier
\* fails with unauthenticated and takes no step but requireAuth: the payload
\* is not validated, no document is read and the provider is not called.
C2_UnauthenticatedFirst ==
  NoSubject =>
    /\ FailedWith("unauthenticated")
    /\ trace = <<"requireAuth">>

\* generateScript called with an empty uid and a malformed payload.
C2_Witness ==
  /\ op = "generateScript"
  /\ pc = "done"
  /\ request.auth = Auth("")
  /\ request.data = Null
  /\ parseGenerateScriptPayload(request.data).t = "throw"

\* lessonsList called without auth.
C2_WitnessList ==
  /\ op = "lessonsList"
  /\ pc = "done"
  /\ request.auth = Undefined

FailureKinds ==
  {"unauthenticated", "invalid-argument", "not-found", "failed-precondition", "internal"}

\* A GenerateScriptResponse with a non-empty fullText and non-empty chunks.
WellFormed(response) ==
  /\ DOMAIN response = {"lessonId", "title", "fullText", "chunks"}
  /\ response.lessonId = command.lessonId
  /\ response.title = lesson.title
  /\ Len(response.fullText) > 0
  /\ Len(response.chunks) > 0

TypedFailure ==
  /\ result.t = "throw"
  /\ IsHttpsError(result.error)
  /\ result.error.code \in FailureKinds

\* C3: every invocation of generateScript ends either with a well-formed
\* response or with a failure of one of the five kinds, never with an
\* untyped error.
C3_ResponseOrTypedFailure ==
  (op = "generateScript" /\ pc = "done") =>
    \/ (result.t = "return" /\ WellFormed(result.value))
    \/ TypedFailure

\* The same, for the invocations whose prompt template has a string
\* userPrompt (or that never read a prompt template).
C3_TypedUnlessUserPromptMissing ==
  (op = "generateScript" /\ pc = "done") =>
    \/ (result.t = "return" /\ WellFormed(result.value))
    \/ TypedFailure
    \/ /\ lesson # None
       /\ Snapshot(promptTemplates, lesson.promptTemplateId).exists
       /\ Snapshot(promptTemplates, lesson.promptTemplateId).data.userPrompt = Undefined
       /\ result = Throw(TypeError)

\* The steps of generateScript, in the order of the handler.
Steps ==
  <<"requireAuth", "parseGenerateScriptPayload", "lessonTemplates.get",
    "ensurePersonalizationCoverage", "promptTemplates.get", "new OpenAI",
    "buildScript", "responses.create">>

\* The kind of failure of each step that can fail.  The failures of the
\* provider call and of the sanitizer after it are both internal.
KindOfStep(step) ==
  CASE step = "requireAuth" -> "unauthenticated"
    [] step = "parseGenerateScriptPayload" -> "invalid-argument"
    [] step = "lessonTemplates.get" -> "not-found"
    [] step = "ensurePersonalizationCoverage" -> "invalid-argument"
    [] step = "promptTemplates.get" -> "failed-precondition"
    [] step = "new OpenAI" -> "failed-precondition"
    [] step = "responses.create" -> "internal"
    [] OTHER -> "none"

\* The steps taken are the first steps of the handler, in its order.
StepsInOrder ==
  /\ Len(trace) <= Len(Steps)
  /\ \A i \in 1..Len(trace) : trace[i] = Steps[i]

\* C4: generateScript takes its steps in the fixed order and stops at the
\* first step that fails; the failure it returns has the kind of that step,
\* which is the last one taken.
C4_FirstFailingStepDecides ==
  op = "generateScript" =>
    /\ StepsInOrder
    /\ Failed =>
         /\ IsHttpsError(result.error)
         /\ result.error.code = KindOfStep(trace[Len(trace)])

\* The part of C4 about the order of the steps and the typed failures: the
\* steps are taken in order, a typed failure has the kind of the last step
\* taken, and the provider is called only in a handler whose every earlier
\* step succeeded.
C4_OrderAndTypedKinds ==
  op = "generateScript" =>
    /\ StepsInOrder
    /\ (Failed /\ IsHttpsError(result.error)) =>
         result.error.code = KindOfStep(trace[Len(trace)])
    /\ (pc = "done" /\ llmOutcome = None) => Failed
    /\ llmOutcome # None => trace = Steps

\* The lesson's required fields as generateScript reads them (none when the
\* document holds no array), once the lesson snapshot has arrived.
RequiredFields ==
  LET fields == Snapshot(lessonTemplates, command.lessonId).data.requiredPersonalizationFields
  IN IF fields.t = "array" THEN fields.a ELSE <<>>

\* A required field with no entry in the validated map, or an empty one.
Uncovered(field) ==
  \/ field \notin DOMAIN command.personalization
  \/ command.personalization[field] = <<>>

\* The handler has just run the coverage check: it waits for the prompt
\* template, or it completed with the check as its last step.
CoverageChecked ==
  /\ op = "generateScript"
  /\ \/ pc = "awaitPrompt"
     \/ pc = "done" /\ trace # <<>>
          /\ trace[Len(trace)] = "ensurePersonalizationCoverage"

\* C5: the coverage check fails with invalid-argument exactly when some
\* required field has no entry or an empty entry in the personalization map;
\* the message lists those fields, all of them and only them, in the
\* lesson's order.  Otherwise generation proceeds to the prompt template.
C5_CoverageFailsOnUncoveredFields ==
  CoverageChecked =>
    LET uncovered == SelectSeq(RequiredFields, Uncovered) IN
    IF uncovered # <<>>
      THEN result = Throw(HttpsError("invalid-argument",
             "Missing personalization values for: " \o JoinNames(uncovered, ", ") \o "."))
    ELSE pc = "awaitPrompt" /\ result = None

\* A required field whose name every object inherits from Object.prototype.
Inherited(field) == field \in ObjectPrototypeKeys

\* C5 for the lessons none of whose required fields is named like a member
\* of Object.prototype.
C5_CoverageOfOrdinaryFields ==
  (CoverageChecked /\ SelectSeq(RequiredFields, Inherited) = <<>>) =>
    LET uncovered == SelectSeq(RequiredFields, Uncovered) IN
    IF uncovered # <<>>
      THEN result = Throw(HttpsError("invalid-argument",
             "Missing personalization values for: " \o JoinNames(uncovered, ", ") \o "."))
    ELSE pc = "awaitPrompt" /\ result = None

\* Two required fields, both uncovered, reported in the lesson's order.
C5_WitnessOrdinary ==
  /\ CoverageChecked
  /\ RequiredFields = <<"user_city", "user_name">>
  /\ DOMAIN command.personalization = {"user_name"}
  /\ command.personalization["user_name"] = <<>>
  /\ FailedWith("invalid-argument")

\* The provider call has settled and buildScript has completed.
Settled == op = "generateScript" /\ pc = "done" /\ llmOutcome # None

\* C6: a failure raised by the provider call reaches the caller as a failure
\* of kind internal, never as the provider's exception; a failure raised with
\* one of the typed kinds while reading the response reaches the caller
\* unchanged, kind and message.
C6_ProviderFailuresAreInternal ==
  Settled =>
    /\ llmOutcome.t = "throw" =>
         /\ FailedWith("internal")
         /\ result.error \notin ProviderErrors
    /\ llmOutcome.t = "return" =>
         LET read == readResponse(command.lessonId, lesson, llmOutcome.value) IN
         (read.t = "throw" /\ IsHttpsError(read.error)) => result = read

\* The provider call failed with a connection error.
C6_Witness ==
  /\ Settled
  /\ llmOutcome = Throw([t |-> "APIConnectionError"])
  /\ Failed

\* A typed failure of the sanitizer passing through.
C6_WitnessTyped ==
  /\ Settled
  /\ llmOutcome.t = "return"
  /\ result = Throw(HttpsError("internal",
                "OpenAI response did not include any usable chunks."))

\* C7: in every successful response fullText is not empty: it is the parsed
\* fullText without its surrounding white space when that is not empty, and
\* otherwise the texts of the final chunks, in their final order, with one
\* space between neighbours.
C7_FullTextNeverEmpty ==
  Succeeded =>
    LET stripped == trim(RawFullText)
        texts == [i \in 1..Len(result.value.chunks) |-> result.value.chunks[i].text]
    IN
    /\ Len(result.value.fullText) > 0
    /\ stripped # <<>> => result.value.fullText = stripped
    /\ stripped = <<>> => result.value.fullText = JoinStrings(texts, <<" ">>)

\* A success whose parsed fullText is blank and that has two chunks, which
\* the sanitizer put in the other order.
C7_Witness ==
  /\ Succeeded
  /\ GotScript
  /\ trim(RawFullText) = <<>>
  /\ result.value.fullText = <<"b", " ", "a">>
  /\ Len(RawChunks) = 2
  /\ RawChunks[1] = Chunk(Num(1), Str(<<"a">>))

\* A string value with at least one character that is not white space.
HasContent(v) == v.t = "string" /\ \E i \in 1..Len(v.s) : v.s[i] # " "

Spaces(n) == [i \in 1..n |-> " "]

\* out is s without its leading and trailing white space.
IsTrimOf(out, s) ==
  /\ out # <<>> => (out[1] # " " /\ out[Len(out)] # " ")
  /\ \E i, j \in 0..Len(s) : s = Spaces(i) \o out \o Spaces(j)

\* The payload the validator accepts, in the words of the claim.
Acceptable(data) ==
  /\ data.t = "object"
  /\ \A field \in {"lessonId", "languageCode", "targetLevel"} :
       HasContent(Get(data, field))
  /\ Get(data, "personalization").t = "object"
  /\ \A i \in 1..Len(Get(data, "personalization").e) :
       Get(data, "personalization").e[i].v.t = "string"

\* generateScript has validated the payload of an authenticated request.
Validated ==
  /\ op = "generateScript"
  /\ \/ pc = "awaitLesson"
     \/ pc = "done" /\ trace = <<"requireAuth", "parseGenerateScriptPayload">>

\* C8: the validator returns a command exactly for a payload that is a
\* non-array object whose lessonId, languageCode and targetLevel are strings
\* with non-white-space content and whose personalization is a non-array
\* object of string values; otherwise it fails with invalid-argument.  The
\* command holds every string without its surrounding white space, a
\* personalization value that is blank being kept as the empty string.
C8_ValidatorAcceptsExactly ==
  Validated =>
    LET data == request.data IN
    IF Acceptable(data)
      THEN /\ pc = "awaitLesson"
           /\ DOMAIN command = {"lessonId", "languageCode", "targetLevel", "personalization"}
           /\ IsTrimOf(command.lessonId, Get(data, "lessonId").s)
           /\ IsTrimOf(command.languageCode, Get(data, "languageCode").s)
           /\ IsTrimOf(command.targetLevel, Get(data, "targetLevel").s)
           /\ DOMAIN command.personalization = OwnKeys(Get(data, "personalization"))
           /\ \A key \in DOMAIN command.personalization :
                IsTrimOf(command.personalization[key],
                         Get(Get(data, "personalization"), key).s)
    ELSE FailedWith("invalid-argument") /\ command = None

\* An accepted payload with a blank personalization value and padded fields.
C8_Witness ==
  /\ Validated
  /\ pc = "awaitLesson"
  /\ Get(request.data, "lessonId") = Str(<<" ", "a", " ">>)
  /\ command.lessonId = <<"a">>
  /\ Get(request.data, "personalization") =
       Obj(<< [k |-> "user_name", v |-> Str(<<" ">>)],
              [k |-> "toString", v |-> Str(<<" ", "b">>)] >>)
  /\ command.personalization["user_name"] = <<>>
  /\ command.personalization["toString"] = <<"b">>

\* A payload rejected for a personalization value that is not a string.
C8_WitnessRejected ==
  /\ Validated
  /\ FailedWith("invalid-argument")
  /\ request.data.t = "object"
  /\ \A field \in {"lessonId", "languageCode", "targetLevel"} :
       HasContent(Get(request.data, field))
  /\ Get(request.data, "personalization") =
       Obj(<< [k |-> "user_name", v |-> Str(<<" ">>)], [k |-> "user_city", v |-> Null] >>)

\* The invocation before this one was a successful generateScript for the
\* same subject and the same payload.
RepeatsSuccess ==
  /\ op = "generateScript"
  /\ "ok" \in DOMAIN prev
  /\ prev.op = "generateScript"
  /\ prev.ok
  /\ prev.llm
  /\ prev.request = request

CallsProvider == \E i \in 1..Len(trace) : trace[i] = "responses.create"

\* C9: generateScript answers a request it has already answered from its
\* cache, so two successive identical requests of one subject cause at most
\* one call of the provider.
C9_RepeatedRequestServedFromCache == RepeatsSuccess => ~CallsProvider

\* The coerced order and the trimmed text of a raw chunk entry; an entry that
\* is no object has neither.
EntryOrder(entry) ==
  IF entry.t = "object" THEN ToNumber(Get(entry, "order")) ELSE NaN

EntryText(entry) ==
  IF entry.t = "object" /\ Get(entry, "text").t = "string"
    THEN trim(Get(entry, "text").s)
  ELSE <<>>

Kept ==
  {i \in 1..Len(RawChunks) :
     IsFiniteNumber(EntryOrder(RawChunks[i])) /\ EntryText(RawChunks[i]) # <<>>}

\* place[p] is the raw position of the entry that comes out at position p.
AscendingAndStable(place) ==
  \A p, q \in DOMAIN place :
    p < q =>
      \/ EntryOrder(RawChunks[place[p]]).n < EntryOrder(RawChunks[place[q]]).n
      \/ /\ EntryOrder(RawChunks[place[p]]).n = EntryOrder(RawChunks[place[q]]).n
         /\ place[p] < place[q]

KeepsAndSorts ==
  IF Kept = {} THEN FailedWith("internal")
  ELSE /\ Succeeded
       /\ Len(result.value.chunks) = Cardinality(Kept)
       /\ \E place \in [1..Cardinality(Kept) -> Kept] :
            /\ AscendingAndStable(place)
            /\ \A p \in DOMAIN place :
                 result.value.chunks[p].text = EntryText(RawChunks[place[p]])

\* C10: the sanitizer keeps exactly the raw chunk entries whose coerced order
\* is a finite number and whose text is not blank, and drops the others; the
\* output texts are the texts of the kept entries, without surrounding white
\* space, in ascending order of coerced order, entries of equal order in
\* their original sequence; it fails with internal exactly when no entry is
\* kept.
C10_SanitizerKeepsAndSorts == (Settled /\ GotScript) => KeepsAndSorts

\* C10 for the chunks arrays without a null entry.
C10_KeepsAndSortsWithoutNull ==
  (Settled /\ GotScript /\ \A i \in 1..Len(RawChunks) : RawChunks[i] # Null) =>
    KeepsAndSorts

\* The state after buildScript has rendered the prompts of the request.
Rendered == op = "generateScript" /\ llmInput # None

PromptDocument == Snapshot(promptTemplates, lesson.promptTemplateId).data

\* The mapping given to renderTemplate: the entries of replacements that
\* have a value.
Replacements ==
  LET replacements == buildReplacements(lesson, command.languageCode,
                        command.targetLevel, command.personalization, uid)
  IN [k \in {n \in DOMAIN replacements : replacements[n] # Undefined} |->
        replacements[k].s]

\* s is a placeholder: two opening braces, white space, a key of at least
\* one word character or dot, white space, two closing braces.
IsPlaceholder(s) ==
  /\ Len(s) >= 5
  /\ s[1] = "{" /\ s[2] = "{" /\ s[Len(s) - 1] = "}" /\ s[Len(s)] = "}"
  /\ \E before, after \in 0..(Len(s) - 5) :
    LET first == 3 + before
        last == Len(s) - 2 - after
    IN
    /\ first <= last
    /\ \A i \in 3..(first - 1) : s[i] = " "
    /\ \A i \in first..last : s[i] = "." \/ IsWordCharacter(s[i])
    /\ \A i \in (last + 1)..(Len(s) - 2) : s[i] = " "

PlaceholderKey(s) ==
  LET InKey(c) == c \notin {"{", "}", " "} IN Text(SelectSeq(s, InKey))

\* The placeholders of t, as pairs of their first and last position.  No two
\* of them overlap: between its braces a placeholder has none.
Placeholders(t) ==
  {pos \in (1..Len(t)) \X (1..Len(t)) :
     pos[1] < pos[2] /\ IsPlaceholder(SubSeq(t, pos[1], pos[2]))}

\* t from position i on, given its placeholders, with every placeholder whose key the mapping has
\* replaced by the mapped value and everything else as it is.
RECURSIVE SubstitutedFrom(_, _, _, _)
SubstitutedFrom(t, i, placeholders, mapping) ==
  IF i > Len(t) THEN <<>>
  ELSE IF \E pos \in placeholders : pos[1] = i
    THEN LET pos == CHOOSE q \in placeholders : q[1] = i
             key == PlaceholderKey(SubSeq(t, pos[1], pos[2]))
         IN (IF key \in DOMAIN mapping THEN mapping[key]
             ELSE SubSeq(t, pos[1], pos[2]))
              \o SubstitutedFrom(t, pos[2] + 1, placeholders, mapping)
  ELSE <<t[i]>> \o SubstitutedFrom(t, i + 1, placeholders, mapping)

Substituted(t, mapping) == SubstitutedFrom(t, 1, Placeholders(t), mapping)

RendersBySubstitution ==
  /\ llmInput.renderedUserPrompt =
       Substituted(PromptDocument.userPrompt.s, Replacements)
  /\ Truthy(PromptDocument.systemPrompt) =>
       llmInput.renderedSystemPrompt =
         Substituted(PromptDocument.systemPrompt.s, Replacements)

\* C11: renderTemplate replaces every placeholder whose key is in the
\* mapping by the mapped value and leaves every placeholder whose key is not
\* in the mapping as it is, braces included; it does so in one pass, so a
\* placeholder inside a substituted value is not expanded.
C11_RenderSubstitutesKnownKeysOnly == Rendered => RendersBySubstitution

\* The keys of the placeholders of the prompts.
PlaceholderKeys ==
  LET KeysOf(t) == {PlaceholderKey(SubSeq(t, pos[1], pos[2])) : pos \in Placeholders(t)}
  IN KeysOf(PromptDocument.userPrompt.s) \cup
     (IF Truthy(PromptDocument.systemPrompt)
        THEN KeysOf(PromptDocument.systemPrompt.s) ELSE {})

\* C11 for the templates whose placeholders name no member of
\* Object.prototype that the mapping lacks.
C11_RenderOfOrdinaryKeys ==
  (Rendered /\ (PlaceholderKeys \cap ObjectPrototypeKeys) \subseteq DOMAIN Replacements)
    => RendersBySubstitution

\* A known placeholder replaced by a value that is itself a placeholder, and
\* left so.
C11_WitnessSinglePass ==
  /\ Rendered
  /\ PromptDocument.userPrompt.s = Placeholder(<<"a">>)
  /\ llmInput.renderedUserPrompt = Placeholder(<<".">>)
  /\ "." \in DOMAIN Replacements

\* A known and an unknown placeholder in one template.
C11_WitnessUnknownKept ==
  /\ Rendered
  /\ \E k \in PlaceholderKeys : k \in DOMAIN Replacements
  /\ \E k \in PlaceholderKeys : k \notin DOMAIN Replacements
  /\ RendersBySubstitution

====
